---- MODULE Spec2Model ----
(***************************************************************************)
(* Model of the cookie checker's browser introspection flow                *)
(* (src/service.py, process_file): one unit of work drives a headless      *)
(* browser, observes the responses of the account page for a service code   *)
(* and profile GUIDs, fans out one sub-fetch per GUID under a semaphore,    *)
(* joins them with asyncio.gather and reports one outcome.                  *)
(*                                                                         *)
(* Every await of the coroutine is a step of the model, so the event loop   *)
(* may interleave the response observers and the sub-fetch tasks between    *)
(* any two steps, as asyncio does.                                          *)
(***************************************************************************)
EXTENDS Naturals, Integers, Sequences, FiniteSets, TLC

\* ------------------------------------------------------------------ bounds
\* Number of distinct profile GUIDs the account page can reveal.
MaxGuids == 6
\* Number of responses the primary page's observer receives.
MaxResp == 2
\* Number of responses the per-profile observers receive, over all pages.
MaxProfResp == 2
\* Responses of the per-profile pages are delivered in the runs with at most
\* this many profiles; the runs with more profiles explore the fan-out.
MaxDataGuids == 2

\* ------------------------------------------------------- program constants
\* asyncio.Semaphore(5)
ProfileConcurrency == 5
\* service_code[:3] / service_code[3:]
CodeSplit == 3
\* datetime.fromtimestamp(ms/1000) rendered with "%B %d, %Y": one value per day
MsPerDay == 86400000

GUIDS == 1..MaxGuids

\* service_code = None; the pattern (\d+) never captures an empty string, and
\* "not service_code" treats both alike.
NoCode == <<>>
\* prof = None; "prof or guid" treats None and "" alike.
NoName == ""
\* latest = ""
NoDate == 0

\* The text of a GUID, as it appears in the profile list when no name was found.
GuidStr(g) == "guid-" \o ToString(g)

\* ------------------------------------------------------------------ inputs
\* Digit strings the pattern "authCode"\s*:\s*"(\d+)" can capture.
CodeA == <<1, 2, 3, 4, 5, 6>>
CodeB == <<6, 5, 4, 3, 2, 1>>
CodeShort == <<1, 2, 3, 4>>

\* Response bodies seen by the primary page's observer: whether r.text() can
\* be read, the authCode matches in order, the guid matches in order (a
\* profile can be named more than once).
PrimaryBodies ==
    { [ok |-> TRUE, codes |-> <<>>, guids |-> <<>>],
      [ok |-> TRUE, codes |-> <<CodeA>>, guids |-> <<1>>],
      [ok |-> TRUE, codes |-> <<>>, guids |-> <<1, 2, 1>>],
      [ok |-> TRUE, codes |-> <<CodeB, CodeShort>>, guids |-> <<>>],
      [ok |-> TRUE, codes |-> <<>>, guids |-> [i \in 1..MaxGuids |-> i]],
      [ok |-> FALSE, codes |-> <<CodeA>>, guids |-> <<1>>] }

Day1 == MsPerDay + 7
Day2 == 2 * MsPerDay + 1

\* Response bodies seen by a per-profile observer: the profileName matches in
\* order (raw, still escaped) and the date matches in order.
ProfileBodies ==
    { [ok |-> TRUE, names |-> <<"Ann">>, dates |-> <<Day1>>],
      [ok |-> TRUE, names |-> <<"Bob", "Z\\u0065">>, dates |-> <<>>],
      [ok |-> TRUE, names |-> <<>>, dates |-> <<Day2, Day1>>],
      [ok |-> FALSE, names |-> <<"Ann">>, dates |-> <<Day2>>] }

\* Parsed cookie maps (names only): empty, or holding cookies.
CookieSamples == {{}, {"NetflixId", "SecureNetflixId"}}

VARIABLES
    pc,            \* position of process_file
    cookies,       \* parse_cookies(content)
    playwright,    \* the async_playwright() scope: "none", "started", "stopped"
    browser,       \* "none", "open", "closed" (by browser.close() or with the driver)
    page,          \* the primary page: "none", "open", "closed"
    service_code,  \* nonlocal service_code
    guids,         \* nonlocal guids
    task,          \* fetch_profile(g): "none", "waiting", "running", "done",
                   \* "failed" (it raised), "aborted" (the driver was stopped under it)
    ppage,         \* the page p of fetch_profile(g): "none", "open", "closed"
    prof,          \* prof of fetch_profile(g)
    dates,         \* dates of fetch_profile(g)
    gatherExc,     \* the exception asyncio.gather propagates: "none", "timeout", "error"
    exc,           \* the exception unwinding process_file
    results,       \* results of the gather
    outcome,       \* the message sent to the requester
    report,        \* the caption of a valid result
    nResp,         \* responses delivered to on_resp
    nProfResp,     \* responses delivered to the ph observers
    firstCode,     \* history: the first code a readable primary response carried
    seenGuids,     \* history: the GUIDs readable primary responses carried
    navTimedOut    \* history: the primary navigation exceeded its bound

\* The cookie parsers (parse_cookies of bot7.py, bot.py and service.py), applied
\* to one uploaded text.
VARIABLES
    text,          \* file_content: the uploaded text, a sequence of tokens
    nPieces,       \* pieces the text was put together from
    file_type,     \* the format hint: "txt" or "json"
    parser,        \* the parser applied: "none", "bot7", "bot", "service"
    parsed,        \* its result: [raised, map]
    reText,        \* the parsed map, serialized as a JSON array
    reParsed       \* the result of parsing reText again

\* One unit of work of the plain-HTTP checkers (process_file of bot7.py and
\* bot2.py).
VARIABLES
    hpc,           \* position of process_file
    version,       \* "bot7" or "bot2"
    hcookies,      \* the names in cookies = parse_cookies(content, ftype)
    sent,          \* requests issued, in order: "root", "account"
    valid,         \* valid
    html,          \* html = resp.text: the account fields in it
    finalUrl,      \* resp.url of the account request
    status,        \* resp.status_code of the account request
    transport,     \* history: the transport failure of a validation request
    section,       \* section: the lines of the report
    extracted,     \* history: the field extraction ran
    houtcome,      \* the message handed to the send for the requester
    delivered,     \* history: that send went through
    escaped        \* the exception that left process_file, or "none"

\* One upload handled by handle_document of bot7.py, bot2.py or service.py.
VARIABLES
    gpc,           \* position of handle_document
    gver,          \* "bot7", "bot2" or "service"
    membership,    \* what get_chat_member gives: a status, or "error"
    invite,        \* what get_channel_invite_link gives: "link" or "None"
    upload,        \* the document: [container, ext]; its content is text
    downloaded,    \* history: the file was downloaded
    scheduled,     \* the units created: [content, ftype] of each, in order
    reply          \* the message the handler answers with, or "none"

\* The sends of bot7 toward Telegram that are in flight.
VARIABLES
    handlerAt,     \* the running handler: "idle", "reply", "waiting", "sending"
    unitsWaiting,  \* units waiting at "async with SEND_SEMAPHORE"
    unitsSending   \* units inside it, their send in flight

\* Units of work that run at the same time, each a process_file call.
VARIABLES
    upc,           \* position of each unit
    ucookies,      \* the credential each unit was called with
    ujar,          \* the credential in each unit's own session
    ucode,         \* service_code of each unit
    uguids,        \* guids of each unit
    uprof,         \* prof of each profile page of each unit
    udates,        \* dates of each profile page of each unit
    ufetched,      \* the profiles whose fetch_profile has returned, per unit
    uout           \* the outcome of each unit

textVars == <<text, nPieces, file_type, parser, parsed, reText, reParsed>>
handlerVars == <<gpc, gver, membership, invite, upload, downloaded, scheduled,
                 reply>>
sendVars == <<handlerAt, unitsWaiting, unitsSending>>
unitVars == <<upc, ucookies, ujar, ucode, uguids, uprof, udates, ufetched, uout>>
frontVars == <<handlerVars, sendVars, unitVars>>
httpVars == <<hpc, version, hcookies, sent, valid, html, finalUrl, status,
              transport, section, extracted, houtcome, delivered, escaped>>
\* What no step of the browser flow touches.
otherUnits == <<textVars, httpVars, frontVars>>

svcVars == <<pc, cookies, playwright, browser, page, service_code, guids, task,
             ppage, prof, dates, gatherExc, exc, results, outcome, report,
             nResp, nProfResp, firstCode, seenGuids, navTimedOut>>

vars == <<svcVars, textVars, httpVars, frontVars>>

\* ----------------------------------------------------------------- helpers
Min(a, b) == IF a < b THEN a ELSE b

SetMax(S) == CHOOSE x \in S : \A y \in S : y <= x

\* The iteration order of the set guids: some fixed order of its elements.
RECURSIVE SetToSeq(_)
SetToSeq(S) ==
    IF S = {} THEN <<>>
    ELSE LET m == SetMax(S) IN Append(SetToSeq(S \ {m}), m)

RECURSIVE Flatten(_)
Flatten(ss) == IF ss = <<>> THEN <<>> ELSE Head(ss) \o Flatten(Tail(ss))

Range(s) == {s[i] : i \in DOMAIN s}

\* ------------------------------------------------- the code's pure pieces
\* for m in re.finditer(r'"authCode"...', txt): service_code = m.group(1)
RECURSIVE CaptureCode(_, _)
CaptureCode(sc, codes) ==
    IF codes = <<>> THEN sc ELSE CaptureCode(Head(codes), Tail(codes))

\* Mutation of AddGuids: only the first guid match of a body is kept
\* (re.search in place of re.finditer).
AddGuidsFirstOnly(gs, found) ==
    IF found = <<>> THEN gs ELSE gs \cup {Head(found)}

\* for m in re.finditer(r'"guid"...', txt): guids.add(m.group(1))
RECURSIVE AddGuids(_, _)
AddGuids(gs, found) ==
    IF found = <<>> THEN gs ELSE AddGuids(gs \cup {Head(found)}, Tail(found))

\* codecs.decode(raw, "unicode_escape") on the sample names
UnicodeEscape(raw) == IF raw = "Z\\u0065" THEN "Ze" ELSE raw

\* for m in re.finditer(r'"profileName"...', t): prof = codecs.decode(...)
RECURSIVE CaptureName(_, _)
CaptureName(p, names) ==
    IF names = <<>> THEN p
    ELSE CaptureName(UnicodeEscape(Head(names)), Tail(names))

\* for m in re.finditer(r'"date"...', t): dates.append(int(m.group(1)))
AppendDates(ds, found) == ds \o found

\* Mutation of SemFree: the semaphore admits one sub-fetch too many.
SemFreeOffByOne(holders) == holders <= ProfileConcurrency

\* async with sem: a slot is free while fewer than 5 sub-fetches hold one
SemFree(holders) == holders < ProfileConcurrency

\* return prof or guid, dates
ProfileResult(p, g, ds) == [name |-> IF p # NoName THEN p ELSE GuidStr(g), dates |-> ds]

\* results = await asyncio.gather(*(fetch_profile(g) for g in guids)):
\* one result per awaitable, in the order of the awaitables.
GatherResults(gs, pr, ds) ==
    LET order == SetToSeq(gs)
    IN [i \in 1..Len(order) |-> ProfileResult(pr[order[i]], order[i], ds[order[i]])]

\* Mutation of DriverStop: the driver is started without the async with
\* block, so nothing stops it when an exception leaves process_file.
DriverLeftRunning(resource) == resource

\* Leaving "async with async_playwright()" stops the playwright driver, and
\* the browser it launched and the pages of that browser go with it.
DriverStop(resource) == IF resource = "open" THEN "closed" ELSE resource

\* Mutation of IsInvalid: the service code is not looked at before the result
\* is reported.
IsInvalidUnchecked(sc) == FALSE

\* if not service_code: ... invalid or expired cookie
IsInvalid(sc) == sc = NoCode

\* f"{service_code[:3]}-{service_code[3:]}"
RenderCode(sc) ==
    [left |-> SubSeq(sc, 1, Min(CodeSplit, Len(sc))),
     right |-> SubSeq(sc, CodeSplit + 1, Len(sc))]

\* dt.strftime("%B %d, %Y"): the day of the timestamp
FormatDate(ms) == ms \div MsPerDay

\* Mutation of Latest: the timestamp collected last is reported.
LatestLastSeen(all_dates) ==
    IF all_dates = <<>> THEN NoDate ELSE FormatDate(all_dates[Len(all_dates)])

\* latest = "" unless all_dates; max(...) over all_dates
Latest(all_dates) ==
    IF all_dates = <<>> THEN NoDate ELSE FormatDate(SetMax(Range(all_dates)))

\* names, all_dates, latest and the caption lines of the valid result
Caption(sc, res) ==
    [code |-> RenderCode(sc),
     names |-> [i \in 1..Len(res) |-> res[i].name],
     latest |-> Latest(Flatten([i \in 1..Len(res) |-> res[i].dates]))]

NoReport == [code |-> RenderCode(NoCode), names |-> <<>>, latest |-> NoDate]

\* Sub-fetches between acquiring the semaphore and releasing it.
Holders == {g \in GUIDS : task[g] = "running"}

\* asyncio.Semaphore wakes its waiters first in, first out, and the tasks
\* reach the semaphore in the order gather created them: g is the next to get
\* a slot when no task created before it still waits.
NextInLine(g) == \A h \in GUIDS : h < g => task[h] # "waiting"

\* Sub-fetches that gather launched and that have not settled yet.
Unsettled == {g \in GUIDS : task[g] \in {"waiting", "running"}}

\* -------------------------------------------------------------------- Init
\* No text has been handed to a parser.
TextIdle ==
    /\ text = <<>>
    /\ nPieces = 0
    /\ file_type = "txt"
    /\ parser = "none"
    /\ parsed = [raised |-> FALSE, map |-> <<>>]
    /\ reText = <<>>
    /\ reParsed = [raised |-> FALSE, map |-> <<>>]

\* No unit of the plain-HTTP checkers has started.
HttpIdle ==
    /\ hpc = "idle"
    /\ version = "bot7"
    /\ hcookies = {}
    /\ sent = <<>>
    /\ valid = FALSE
    /\ html = [fields |-> {}, code |-> "US", hold |-> FALSE]
    /\ finalUrl = <<>>
    /\ status = 0
    /\ transport = "none"
    /\ section = <<>>
    /\ extracted = FALSE
    /\ houtcome = "none"
    /\ delivered = FALSE
    /\ escaped = "none"

\* No upload is being handled.
HandlerIdle ==
    /\ gpc = "idle"
    /\ membership = "member"
    /\ invite = "link"
    /\ upload = [container |-> "direct", ext |-> "txt"]
    /\ downloaded = FALSE
    /\ scheduled = <<>>
    /\ reply = "none"

\* No send is in flight.
SendIdle ==
    /\ handlerAt = "idle"
    /\ unitsWaiting = 0
    /\ unitsSending = 0

\* No unit runs.
UnitsIdle ==
    /\ upc = <<>>
    /\ ucookies = <<>>
    /\ ujar = <<>>
    /\ ucode = <<>>
    /\ uguids = <<>>
    /\ uprof = <<>>
    /\ udates = <<>>
    /\ ufetched = <<>>
    /\ uout = <<>>

FrontIdle ==
    /\ gver = "bot7"
    /\ HandlerIdle
    /\ SendIdle
    /\ UnitsIdle

\* The browser flow before process_file of service.py has run.
SvcIdle ==
    /\ pc = "parse"
    /\ playwright = "none"
    /\ browser = "none"
    /\ page = "none"
    /\ service_code = NoCode
    /\ guids = {}
    /\ task = [g \in GUIDS |-> "none"]
    /\ ppage = [g \in GUIDS |-> "none"]
    /\ prof = [g \in GUIDS |-> NoName]
    /\ dates = [g \in GUIDS |-> <<>>]
    /\ gatherExc = "none"
    /\ exc = "none"
    /\ results = <<>>
    /\ outcome = "none"
    /\ report = NoReport
    /\ nResp = 0
    /\ nProfResp = 0
    /\ firstCode = NoCode
    /\ seenGuids = {}
    /\ navTimedOut = FALSE

Init ==
    /\ cookies \in CookieSamples
    /\ SvcIdle
    /\ TextIdle
    /\ HttpIdle
    /\ FrontIdle

procVars == <<pc, playwright, browser, page, exc, results, outcome, report, navTimedOut>>
obsVars == <<service_code, guids, nResp, firstCode, seenGuids>>
taskVars == <<task, ppage, prof, dates, gatherExc, nProfResp>>

\* ------------------------------------------------------------ process_file
\* cookies = parse_cookies(content); if not cookies: "could not parse"
ParseEmpty ==
    /\ pc = "parse" /\ cookies = {}
    /\ outcome' = "ParseFailure"
    /\ pc' = "done"
    /\ UNCHANGED <<cookies, otherUnits, playwright, browser, page, exc, results, report,
                   navTimedOut, obsVars, taskVars>>

ParseOk ==
    /\ pc = "parse" /\ cookies # {}
    /\ pc' = "launch"
    /\ UNCHANGED <<cookies, otherUnits, playwright, browser, page, exc, results, outcome,
                   report, navTimedOut, obsVars, taskVars>>

\* async with async_playwright(); launch; new_context; add_cookies; new_page;
\* page.on("response", on_resp); page.goto(...) is awaited next
LaunchOk ==
    /\ pc = "launch"
    /\ playwright' = "started"
    /\ browser' = "open"
    /\ page' = "open"
    /\ pc' = "goto"
    /\ UNCHANGED <<cookies, otherUnits, exc, results, outcome, report, navTimedOut,
                   obsVars, taskVars>>

\* chromium.launch raises (no browser installed, ...)
LaunchFail ==
    /\ pc = "launch"
    /\ playwright' = "started"
    /\ exc' = "error"
    /\ pc' = "unwind"
    /\ UNCHANGED <<cookies, otherUnits, browser, page, results, outcome, report,
                   navTimedOut, obsVars, taskVars>>

\* on_resp(r): one response of the primary page
OnResp(body) ==
    /\ pc \in {"goto", "query", "settle", "close"}
    /\ page = "open"
    /\ nResp < MaxResp
    /\ nResp' = nResp + 1
    /\ IF body.ok
       THEN /\ service_code' = CaptureCode(service_code, body.codes)
            /\ guids' = AddGuids(guids, body.guids)
            /\ firstCode' = IF firstCode = NoCode /\ body.codes # <<>>
                            THEN Head(body.codes) ELSE firstCode
            /\ seenGuids' = seenGuids \cup Range(body.guids)
       ELSE UNCHANGED <<service_code, guids, firstCode, seenGuids>>
    /\ UNCHANGED <<cookies, otherUnits, procVars, taskVars>>

\* await page.goto(account, timeout=30_000) returns
GotoOk ==
    /\ pc = "goto"
    /\ pc' = "query"
    /\ UNCHANGED <<cookies, otherUnits, playwright, browser, page, exc, results, outcome,
                   report, navTimedOut, obsVars, taskVars>>

\* await page.goto(...) raises PlaywrightTimeoutError
GotoTimeout ==
    /\ pc = "goto"
    /\ navTimedOut' = TRUE
    /\ exc' = "timeout"
    /\ pc' = "unwind"
    /\ UNCHANGED <<cookies, otherUnits, playwright, browser, page, results, outcome,
                   report, obsVars, taskVars>>

\* await page.goto(...) raises another error (net::ERR_...)
GotoError ==
    /\ pc = "goto"
    /\ exc' = "error"
    /\ pc' = "unwind"
    /\ UNCHANGED <<cookies, otherUnits, playwright, browser, page, results, outcome,
                   report, navTimedOut, obsVars, taskVars>>

\* btn = await page.query_selector(...): no button
NoButton ==
    /\ pc = "query"
    /\ pc' = "close"
    /\ UNCHANGED <<cookies, otherUnits, playwright, browser, page, exc, results, outcome,
                   report, navTimedOut, obsVars, taskVars>>

\* if btn: await btn.click(); page.wait_for_timeout(3000) is awaited next
ClickOk ==
    /\ pc = "query"
    /\ pc' = "settle"
    /\ UNCHANGED <<cookies, otherUnits, playwright, browser, page, exc, results, outcome,
                   report, navTimedOut, obsVars, taskVars>>

\* await btn.click() raises PlaywrightTimeoutError (the button never becomes
\* actionable)
ClickTimeout ==
    /\ pc = "query"
    /\ exc' = "timeout"
    /\ pc' = "unwind"
    /\ UNCHANGED <<cookies, otherUnits, playwright, browser, page, results, outcome,
                   report, navTimedOut, obsVars, taskVars>>

\* await page.wait_for_timeout(3000) returns
SettleDone ==
    /\ pc = "settle"
    /\ pc' = "close"
    /\ UNCHANGED <<cookies, otherUnits, playwright, browser, page, exc, results, outcome,
                   report, navTimedOut, obsVars, taskVars>>

\* await page.close() returns; sem = asyncio.Semaphore(5); gather creates one
\* task per element of guids and process_file waits for them
ClosePage ==
    /\ pc = "close"
    /\ page' = "closed"
    /\ task' = [g \in GUIDS |-> IF g \in guids THEN "waiting" ELSE task[g]]
    /\ pc' = "join"
    /\ UNCHANGED <<cookies, otherUnits, playwright, browser, exc, results, outcome, report,
                   navTimedOut, obsVars, ppage, prof, dates, gatherExc,
                   nProfResp>>

\* gather returns: every task is done; await browser.close() is next
JoinOk ==
    /\ pc = "join"
    /\ gatherExc = "none"
    /\ \A g \in guids : task[g] = "done"
    /\ results' = GatherResults(guids, prof, dates)
    /\ pc' = "bclose"
    /\ UNCHANGED <<cookies, otherUnits, playwright, browser, page, exc, outcome, report,
                   navTimedOut, obsVars, taskVars>>

\* gather raises the first exception of a task; the other tasks keep running
JoinRaise ==
    /\ pc = "join"
    /\ gatherExc # "none"
    /\ exc' = gatherExc
    /\ pc' = "unwind"
    /\ UNCHANGED <<cookies, otherUnits, playwright, browser, page, results, outcome,
                   report, navTimedOut, obsVars, taskVars>>

\* await browser.close() returns
BrowserClose ==
    /\ pc = "bclose"
    /\ browser' = "closed"
    /\ pc' = "exit"
    /\ UNCHANGED <<cookies, otherUnits, playwright, page, exc, results, outcome, report,
                   navTimedOut, obsVars, taskVars>>

\* the async with block is left, normally or by an exception: the playwright
\* driver is stopped
ExitPlaywright ==
    /\ pc \in {"exit", "unwind"}
    /\ playwright' = "stopped"
    /\ browser' = DriverStop(browser)
    /\ page' = DriverStop(page)
    /\ ppage' = [g \in GUIDS |-> DriverStop(ppage[g])]
    /\ pc' = IF pc = "exit" THEN "check" ELSE "handler"
    /\ UNCHANGED <<cookies, otherUnits, exc, results, outcome, report, navTimedOut,
                   obsVars, task, prof, dates, gatherExc, nProfResp>>

\* except PlaywrightTimeoutError: "timed out scraping"
ReportTimeout ==
    /\ pc = "handler" /\ exc = "timeout"
    /\ outcome' = "ScrapeTimeout"
    /\ pc' = "done"
    /\ UNCHANGED <<cookies, otherUnits, playwright, browser, page, exc, results, report,
                   navTimedOut, obsVars, taskVars>>

\* except Exception as e: "error: {e}"
ReportError ==
    /\ pc = "handler" /\ exc = "error"
    /\ outcome' = "ScrapeError"
    /\ pc' = "done"
    /\ UNCHANGED <<cookies, otherUnits, playwright, browser, page, exc, results, report,
                   navTimedOut, obsVars, taskVars>>

\* if not service_code: "invalid or expired cookie"
ReportInvalid ==
    /\ pc = "check" /\ IsInvalid(service_code)
    /\ outcome' = "InvalidCredential"
    /\ pc' = "done"
    /\ UNCHANGED <<cookies, otherUnits, playwright, browser, page, exc, results, report,
                   navTimedOut, obsVars, taskVars>>

\* the captions are built and the document is sent back
ReportValid ==
    /\ pc = "check" /\ ~IsInvalid(service_code)
    /\ report' = Caption(service_code, results)
    /\ outcome' = "Valid"
    /\ pc' = "done"
    /\ UNCHANGED <<cookies, otherUnits, playwright, browser, page, exc, results,
                   navTimedOut, obsVars, taskVars>>

\* ----------------------------------------------------------- fetch_profile
\* The task leaves fetch_profile by an exception: the semaphore is released,
\* and gather hands the first exception of any task to process_file.
Raise(g, kind, how) ==
    /\ task' = [task EXCEPT ![g] = how]
    /\ gatherExc' = IF gatherExc = "none" THEN kind ELSE gatherExc

\* async with sem: the slot is acquired; p = await ctx.new_page();
\* p.on("response", ph); p.goto(...) is awaited next. The slot counts as
\* taken from the moment the page exists: between the acquisition and the
\* return of new_page the task does nothing another task can observe.
FetchOpen(g) ==
    /\ task[g] = "waiting"
    /\ playwright = "started"
    /\ SemFree(Cardinality(Holders))
    /\ NextInLine(g)
    /\ task' = [task EXCEPT ![g] = "running"]
    /\ ppage' = [ppage EXCEPT ![g] = "open"]
    /\ UNCHANGED <<cookies, otherUnits, procVars, obsVars, prof, dates, gatherExc, nProfResp>>

\* ph(r): one response of the page of profile g
ProfileResp(g, body) ==
    /\ task[g] = "running"
    /\ playwright = "started"
    /\ Cardinality(guids) <= MaxDataGuids
    /\ nProfResp < MaxProfResp
    /\ nProfResp' = nProfResp + 1
    /\ IF body.ok
       THEN /\ prof' = [prof EXCEPT ![g] = CaptureName(prof[g], body.names)]
            /\ dates' = [dates EXCEPT ![g] = AppendDates(dates[g], body.dates)]
       ELSE UNCHANGED <<prof, dates>>
    /\ UNCHANGED <<cookies, otherUnits, procVars, obsVars, task, ppage, gatherExc>>

\* await p.goto(viewed/{guid}, timeout=20_000) raises PlaywrightTimeoutError:
\* p.close() is skipped
FetchGotoTimeout(g) ==
    /\ task[g] = "running"
    /\ playwright = "started"
    /\ Raise(g, "timeout", "failed")
    /\ UNCHANGED <<cookies, otherUnits, procVars, obsVars, ppage, prof, dates, nProfResp>>

\* await p.goto(...) or await p.wait_for_timeout(2000) raises another error
\* (net::ERR_..., the page crashed): p.close() is skipped
FetchError(g) ==
    /\ task[g] = "running"
    /\ playwright = "started"
    /\ Raise(g, "error", "failed")
    /\ UNCHANGED <<cookies, otherUnits, procVars, obsVars, ppage, prof, dates, nProfResp>>

\* p.goto and p.wait_for_timeout(2000) have returned; await p.close();
\* return prof or guid, dates
FetchClose(g) ==
    /\ task[g] = "running"
    /\ playwright = "started"
    /\ ppage' = [ppage EXCEPT ![g] = "closed"]
    /\ task' = [task EXCEPT ![g] = "done"]
    /\ UNCHANGED <<cookies, otherUnits, procVars, obsVars, prof, dates, gatherExc, nProfResp>>

\* The playwright driver was stopped while the task was still running: its
\* next call on the context or the page raises.
FetchAbort(g) ==
    /\ playwright = "stopped"
    /\ \/ task[g] = "running"
       \/ task[g] = "waiting" /\ SemFree(Cardinality(Holders)) /\ NextInLine(g)
    /\ Raise(g, "error", "aborted")
    /\ UNCHANGED <<cookies, otherUnits, procVars, obsVars, ppage, prof, dates, nProfResp>>

\* -------------------------------------------------------------------- Next
Next ==
    \/ ParseEmpty
    \/ ParseOk
    \/ LaunchOk
    \/ LaunchFail
    \/ \E body \in PrimaryBodies : OnResp(body)
    \/ GotoOk
    \/ GotoTimeout
    \/ GotoError
    \/ NoButton
    \/ ClickOk
    \/ ClickTimeout
    \/ SettleDone
    \/ ClosePage
    \/ JoinOk
    \/ JoinRaise
    \/ BrowserClose
    \/ ExitPlaywright
    \/ ReportTimeout
    \/ ReportError
    \/ ReportInvalid
    \/ ReportValid
    \/ \E g \in GUIDS : FetchOpen(g)
    \/ \E g \in GUIDS, body \in ProfileBodies : ProfileResp(g, body)
    \/ \E g \in GUIDS : FetchGotoTimeout(g)
    \/ \E g \in GUIDS : FetchError(g)
    \/ \E g \in GUIDS : FetchClose(g)
    \/ \E g \in GUIDS : FetchAbort(g)

Spec == Init /\ [][Next]_vars

\* ------------------------------------------------------------------ claims
Settled(g) == task[g] \in {"done", "failed", "aborted"}

\* The call went through the whole browser flow without an exception.
FlowCompleted == pc = "done" /\ cookies # {} /\ exc = "none"

\* C1: when one profile sub-fetch raises while the others succeed, the call
\* still ends with an introspection result holding one entry per profile, the
\* failing profile under its GUID, and not with the timeout or error outcome.
C1_SubFetchFailureContained ==
    (pc = "done" /\ Cardinality({g \in GUIDS : task[g] = "failed"}) = 1)
        => /\ outcome \in {"Valid", "InvalidCredential"}
           /\ Len(results) = Cardinality(guids)
           /\ \A i \in 1..Len(results) :
                task[SetToSeq(guids)[i]] = "failed"
                    => results[i].name = GuidStr(SetToSeq(guids)[i])

\* C2: the sub-fetches that hold a slot of the semaphore (each with its
\* per-profile page open) are never more than 5.
C2_AtMostFiveRunning ==
    /\ Cardinality(Holders) <= ProfileConcurrency
    /\ \A g \in Holders : ppage[g] = "open" \/ playwright = "stopped"

\* C2 witness: a sub-fetch beyond the first 5 runs, after another one has
\* settled, and all 5 slots are taken again.
C2_Witness ==
    /\ Cardinality(Holders) = ProfileConcurrency
    /\ \E g \in GUIDS : g > ProfileConcurrency /\ task[g] = "running"
    /\ \E g \in GUIDS : Settled(g)

\* C3: the call has reported its outcome only when every sub-fetch it
\* launched has settled.
C3_OutcomeAfterAllSettled == outcome # "none" => Unsettled = {}

\* C4: a valid result is reported only if some observed response carried a
\* service code; a completed flow that observed none reports the
\* invalid-credential outcome.
C4_NoCodeMeansInvalid ==
    /\ outcome = "Valid" => firstCode # NoCode
    /\ (FlowCompleted /\ firstCode = NoCode) => outcome = "InvalidCredential"

\* C4 witness: GUIDs, a profile name and timestamps were collected, no code
\* was observed, and the call reported the invalid-credential outcome.
C4_Witness ==
    /\ outcome = "InvalidCredential"
    /\ firstCode = NoCode
    /\ Len(results) >= 2
    /\ \E i \in 1..Len(results) :
            results[i].dates # <<>> /\ results[i].name = "Ann"

\* C5: the retained service code is the first one the observer matched.
C5_FirstMatchWins == service_code = firstCode

\* C6: the service code of a valid result has exactly 6 digits and is
\* rendered as two groups of 3.
C6_SixDigitCode ==
    outcome = "Valid"
        => /\ Len(service_code) = 6
           /\ Len(report.code.left) = 3
           /\ Len(report.code.right) = 3

\* C7: when every sub-fetch succeeds, the result holds exactly one entry per
\* distinct GUID the primary page revealed, each entry being that profile's,
\* whatever the order in which the sub-fetches completed.
C7_OneEntryPerGuid ==
    LET order == SetToSeq(seenGuids)
    IN /\ (pc \in {"bclose", "exit", "check", "done"} /\ exc = "none" /\ cookies # {})
            => /\ Len(results) = Cardinality(seenGuids)
               /\ \A i \in 1..Len(results) :
                    /\ results[i].dates = dates[order[i]]
                    /\ results[i].name \in {prof[order[i]], GuidStr(order[i])}
       /\ outcome = "Valid"
            => /\ Len(report.names) = Cardinality(seenGuids)
               /\ \A i \in 1..Len(report.names) :
                    report.names[i] = results[i].name

\* C7 witness: a valid result with every profile of the account, GUID 1
\* having been named by two responses (the one that carried CodeA and the one
\* that listed every profile).
C7_Witness ==
    /\ outcome = "Valid"
    /\ service_code = CodeA
    /\ Len(report.names) = MaxGuids
    /\ nResp >= 2

\* C8: a sub-fetch that has settled has closed the page it opened.
C8_PageClosedBeforeSettle == \A g \in GUIDS : Settled(g) => ppage[g] # "open"

\* C9: when the call reports its outcome, the browser it opened and the
\* primary page are released.
C9_BrowserReleased ==
    outcome # "none" => (browser # "open" /\ page # "open")

\* C9 witness: the call ended on the exception path of a sub-fetch, with the
\* browser released.
C9_Witness ==
    /\ outcome = "ScrapeTimeout"
    /\ ~navTimedOut
    /\ browser = "closed"
    /\ page = "closed"

\* C10: the timeout outcome is reported exactly when the primary navigation
\* exceeded its bound, any other failure is reported as the error outcome,
\* and no valid result follows either.
C10_TimeoutIffPrimaryNavigation ==
    outcome # "none"
        => /\ outcome = "ScrapeTimeout" <=> navTimedOut
           /\ (exc # "none" /\ ~navTimedOut) => outcome = "ScrapeError"
           /\ exc # "none" => outcome \in {"ScrapeTimeout", "ScrapeError"}


\* ======================================================================
\* The cookie parsers.  A text is a sequence of tokens; every token stands for
\* the characters it spells, and no two token sequences spell the same text.
\* ======================================================================
SP == " "
TAB == "<TAB>"
NL == "<NL>"
Q == "\""
\* The escapes json.dumps writes inside a string.
EscQ == "\\\""
EscN == "\\n"
EscT == "\\t"
\* str.strip(), str.split() and \s of the regular expressions.
Whitespace == {SP, TAB, NL}

NetflixIdName == <<"NetflixId">>
SecureNetflixIdName == <<"Secure", "NetflixId">>
HttpOnlyMarker == <<"#", "HttpOnly_">>

Last(s) == s[Len(s)]
Front(s) == SubSeq(s, 1, Len(s) - 1)

RECURSIVE LStrip(_)
LStrip(s) ==
    IF s # <<>> /\ Head(s) \in Whitespace THEN LStrip(Tail(s)) ELSE s

RECURSIVE RStrip(_)
RStrip(s) ==
    IF s # <<>> /\ Last(s) \in Whitespace THEN RStrip(Front(s)) ELSE s

Strip(s) == RStrip(LStrip(s))

StartsWith(s, pat) ==
    Len(s) >= Len(pat) /\ SubSeq(s, 1, Len(pat)) = pat

\* pat in s
Contains(s, pat) ==
    \E i \in 1..(Len(s) - Len(pat) + 1) : SubSeq(s, i, i + Len(pat) - 1) = pat

\* s.split(d) for a one-token separator d
RECURSIVE SplitOn(_, _)
SplitOn(s, d) ==
    IF \A i \in 1..Len(s) : s[i] # d
    THEN <<s>>
    ELSE LET i == CHOOSE j \in 1..Len(s) :
                      s[j] = d /\ \A h \in 1..(j - 1) : s[h] # d
         IN  <<SubSeq(s, 1, i - 1)>> \o SplitOn(SubSeq(s, i + 1, Len(s)), d)

\* s.split(d, 1)
SplitOnce(s, d) ==
    IF \A i \in 1..Len(s) : s[i] # d
    THEN <<s>>
    ELSE LET i == CHOOSE j \in 1..Len(s) :
                      s[j] = d /\ \A h \in 1..(j - 1) : s[h] # d
         IN  <<SubSeq(s, 1, i - 1), SubSeq(s, i + 1, Len(s))>>

\* The longest prefix of s free of the tokens of stop.
RECURSIVE Run(_, _)
Run(s, stop) ==
    IF s = <<>> \/ Head(s) \in stop THEN <<>>
    ELSE <<Head(s)>> \o Run(Tail(s), stop)

\* s.split(): the runs of non-whitespace
RECURSIVE SplitWs(_)
SplitWs(s) ==
    LET t == LStrip(s)
        w == Run(t, Whitespace)
    IN  IF t = <<>> THEN <<>>
        ELSE <<w>> \o SplitWs(SubSeq(t, Len(w) + 1, Len(t)))

\* s.splitlines()
SplitLines(s) ==
    LET p == SplitOn(s, NL)
    IN  IF Last(p) = <<>> THEN Front(p) ELSE p

\* s.replace(a, b) for one-token a and b
Replace(s, a, b) == [i \in 1..Len(s) |-> IF s[i] = a THEN b ELSE s[i]]

\* re.search(name + r'=([^\s;]+)', s): the leftmost match and its group 1
Search(s, name) ==
    LET pat == name \o <<"=">>
        hits == {i \in 1..Len(s) :
                    /\ StartsWith(SubSeq(s, i, Len(s)), pat)
                    /\ i + Len(pat) <= Len(s)
                    /\ s[i + Len(pat)] \notin Whitespace \cup {";"}}
    IN  IF hits = {} THEN [found |-> FALSE, group |-> <<>>]
        ELSE LET i == CHOOSE j \in hits : \A h \in hits : j <= h
             IN  [found |-> TRUE,
                  group |-> Run(SubSeq(s, i + Len(pat), Len(s)),
                                Whitespace \cup {";"})]

\* ------------------------------------------------------------ json.loads
\* A JSON value: t is its type, s the tokens of a string, number or member
\* key, items the elements of an array or the members of an object.
JNull == [t |-> "null", s |-> <<>>, items |-> <<>>]
JStr(s) == [t |-> "str", s |-> s, items |-> <<>>]
JNum(s) == [t |-> "num", s |-> s, items |-> <<>>]
JArr(items) == [t |-> "arr", s |-> <<>>, items |-> items]
JObj(members) == [t |-> "obj", s |-> <<>>, items |-> members]
JMember(k, v) == [t |-> "member", s |-> k, items |-> <<v>>]

Digits == {"0", "7"}
JFail == [ok |-> FALSE, val |-> JNull, rest |-> <<>>]
JOk(v, rest) == [ok |-> TRUE, val |-> v, rest |-> rest]

Unescape(tok) ==
    CASE tok = EscQ -> Q
      [] tok = EscN -> NL
      [] tok = EscT -> TAB
      [] OTHER -> tok

\* The rest of a string, after its opening quote.  A raw control character
\* inside a string is a decode error.
RECURSIVE ScanString(_)
ScanString(s) ==
    IF s = <<>> \/ Head(s) \in {TAB, NL} THEN JFail
    ELSE IF Head(s) = Q THEN JOk(JStr(<<>>), Tail(s))
    ELSE LET r == ScanString(Tail(s))
         IN  IF r.ok THEN JOk(JStr(<<Unescape(Head(s))>> \o r.val.s), r.rest)
             ELSE JFail

RECURSIVE ScanValue(_)
RECURSIVE ScanElements(_)
RECURSIVE ScanMembers(_)

ScanValue(s0) ==
    LET s == LStrip(s0)
    IN  IF s = <<>> THEN JFail
        ELSE IF Head(s) = Q THEN ScanString(Tail(s))
        ELSE IF Head(s) \in Digits
        THEN LET d == Run(s, {tok \in Range(s) : tok \notin Digits})
             IN  IF Len(d) > 1 /\ Head(d) = "0" THEN JOk(JNum(<<"0">>), Tail(s))
                 ELSE JOk(JNum(d), SubSeq(s, Len(d) + 1, Len(s)))
        ELSE IF Head(s) = "["
        THEN IF LStrip(Tail(s)) # <<>> /\ Head(LStrip(Tail(s))) = "]"
             THEN JOk(JArr(<<>>), Tail(LStrip(Tail(s))))
             ELSE ScanElements(Tail(s))
        ELSE IF Head(s) = "{"
        THEN IF LStrip(Tail(s)) # <<>> /\ Head(LStrip(Tail(s))) = "}"
             THEN JOk(JObj(<<>>), Tail(LStrip(Tail(s))))
             ELSE ScanMembers(LStrip(Tail(s)))
        ELSE JFail

\* value ("," value)* "]"
ScanElements(s) ==
    LET v == ScanValue(s)
        r == LStrip(v.rest)
    IN  IF ~v.ok \/ r = <<>> THEN JFail
        ELSE IF Head(r) = "]" THEN JOk(JArr(<<v.val>>), Tail(r))
        ELSE IF Head(r) = ","
        THEN LET more == ScanElements(Tail(r))
             IN  IF more.ok
                 THEN JOk(JArr(<<v.val>> \o more.val.items), more.rest)
                 ELSE JFail
        ELSE JFail

\* string ":" value ("," string ":" value)* "}"
ScanMembers(s) ==
    IF s = <<>> \/ Head(s) # Q THEN JFail
    ELSE LET k == ScanString(Tail(s))
             c == LStrip(k.rest)
         IN  IF ~k.ok \/ c = <<>> \/ Head(c) # ":" THEN JFail
             ELSE LET v == ScanValue(Tail(c))
                      r == LStrip(v.rest)
                  IN  IF ~v.ok \/ r = <<>> THEN JFail
                      ELSE IF Head(r) = "}"
                      THEN JOk(JObj(<<JMember(k.val.s, v.val)>>), Tail(r))
                      ELSE IF Head(r) = ","
                      THEN LET more == ScanMembers(LStrip(Tail(r)))
                           IN  IF more.ok
                               THEN JOk(JObj(<<JMember(k.val.s, v.val)>>
                                             \o more.val.items), more.rest)
                               ELSE JFail
                      ELSE JFail

\* json.loads(s): ok is FALSE for json.JSONDecodeError
JsonLoads(s) ==
    LET v == ScanValue(s)
    IN  IF v.ok /\ LStrip(v.rest) = <<>> THEN v ELSE JFail

\* ------------------------------------------------------------ the cookie map
\* A dict: its entries in insertion order, one per name.
DictSet(d, k, v) ==
    IF \E i \in 1..Len(d) : d[i].name = k
    THEN [i \in 1..Len(d) |->
             IF d[i].name = k THEN [name |-> k, value |-> v] ELSE d[i]]
    ELSE Append(d, [name |-> k, value |-> v])

DictKeys(d) == {d[i].name : i \in 1..Len(d)}
\* d1 == d2 of two dicts
DictEq(d1, d2) == Range(d1) = Range(d2)

Returned(d) == [raised |-> FALSE, map |-> d]
\* An exception left parse_cookies.
Raised == [raised |-> TRUE, map |-> <<>>]

\* Members of an object: the last member of a name is the one kept.
Has(c, k) == \E i \in 1..Len(c.items) : c.items[i].s = <<k>>
Get(c, k) ==
    LET i == CHOOSE j \in 1..Len(c.items) :
                 /\ c.items[j].s = <<k>>
                 /\ \A h \in (j + 1)..Len(c.items) : c.items[h].s # <<k>>
    IN  c.items[i].items[1]

\* hash(v) raises TypeError for a list or a dict.
Hashable(v) == v.t \notin {"arr", "obj"}

\* k in c: "yes", "no", or "TypeError" where c supports no membership test.
In(k, c) ==
    CASE c.t = "obj" -> IF Has(c, k) THEN "yes" ELSE "no"
      [] c.t = "str" -> IF Contains(c.s, <<k>>) THEN "yes" ELSE "no"
      [] c.t = "arr" -> IF \E i \in 1..Len(c.items) : c.items[i] = JStr(<<k>>)
                        THEN "yes" ELSE "no"
      [] OTHER -> "TypeError"

\* {c['name']: c['value'] for c in arr
\*  if isinstance(c, dict) and 'name' in c and 'value' in c}
RECURSIVE Comprehension7(_, _)
Comprehension7(items, d) ==
    IF items = <<>> THEN Returned(d)
    ELSE LET c == Head(items)
         IN  IF c.t = "obj" /\ Has(c, "name") /\ Has(c, "value")
             THEN IF Hashable(Get(c, "name"))
                  THEN Comprehension7(Tail(items),
                           DictSet(d, Get(c, "name"), Get(c, "value")))
                  ELSE Raised
             ELSE Comprehension7(Tail(items), d)

\* {c["name"]: c["value"] for c in arr if "name" in c and "value" in c}
RECURSIVE Comprehension(_, _)
Comprehension(items, d) ==
    IF items = <<>> THEN Returned(d)
    ELSE LET c == Head(items)
             n == In("name", c)
             v == IF n = "yes" THEN In("value", c) ELSE n
         IN  IF v = "TypeError" THEN Raised
             ELSE IF v = "no" THEN Comprehension(Tail(items), d)
             ELSE IF c.t = "obj" /\ Hashable(Get(c, "name"))
             THEN Comprehension(Tail(items),
                      DictSet(d, Get(c, "name"), Get(c, "value")))
             ELSE Raised

\* ------------------------------------------------- parse_cookies of bot7.py
\* What one strategy did: hit is TRUE where it ended the parse with map (or
\* with an exception, raised), FALSE where the parse went on.
NoHit == [hit |-> FALSE, raised |-> FALSE, map |-> <<>>]
Hit(d) == [hit |-> TRUE, raised |-> FALSE, map |-> d]
HitRaised == [hit |-> TRUE, raised |-> TRUE, map |-> <<>>]

\* 1) both assignments anywhere in the text
DirectScan(s) ==
    LET netflix_match == Search(s, NetflixIdName)
        secure_match == Search(s, SecureNetflixIdName)
    IN  IF netflix_match.found /\ secure_match.found
        THEN Hit(<<[name |-> JStr(NetflixIdName),
                    value |-> JStr(netflix_match.group)],
                   [name |-> JStr(SecureNetflixIdName),
                    value |-> JStr(secure_match.group)]>>)
        ELSE NoHit

\* file_type.lower() == 'json' or file_content.lstrip().startswith('[')
LooksJson(s, hint) == hint = "json" \/ StartsWith(LStrip(s), <<"[">>)

\* 2) a JSON array: whatever the comprehension gives is returned
JsonArray7(s, hint) ==
    IF ~LooksJson(s, hint) THEN NoHit
    ELSE LET arr == JsonLoads(s)
         IN  IF arr.ok /\ arr.val.t = "arr"
             THEN LET r == Comprehension7(arr.val.items, <<>>)
                  IN  IF r.raised THEN HitRaised ELSE Hit(r.map)
             ELSE NoHit

RECURSIVE PipeLoop(_, _)
PipeLoop(parts, d) ==
    IF parts = <<>> THEN d
    ELSE LET part == Strip(Head(parts))
             nv == SplitOnce(part, "=")
         IN  IF Len(nv) = 2
             THEN PipeLoop(Tail(parts),
                      DictSet(d, JStr(Strip(nv[1])), JStr(Strip(nv[2]))))
             ELSE PipeLoop(Tail(parts), d)

\* 3) pipe-separated assignments, kept where both identifiers are among them
PipeSeparated(s) ==
    IF /\ Contains(s, <<"|">>)
       /\ Contains(s, NetflixIdName)
       /\ Contains(s, SecureNetflixIdName)
    THEN LET d == PipeLoop(SplitOn(s, "|"), <<>>)
         IN  IF {JStr(NetflixIdName), JStr(SecureNetflixIdName)}
                    \subseteq DictKeys(d)
             THEN Hit(d) ELSE NoHit
    ELSE NoHit

\* One line of a Netscape cookie file: the fields of its row, or <<>> where
\* the line is skipped.  tabsOnly is FALSE where a line of fewer than seven
\* tab-separated fields is split on whitespace instead.
Row(line0, tabsOnly) ==
    LET line1 == Strip(line0)
        line == IF StartsWith(line1, HttpOnlyMarker)
                THEN SubSeq(line1, Len(HttpOnlyMarker) + 1, Len(line1))
                ELSE line1
        parts == SplitOn(line, TAB)
    IN  IF line1 = <<>>
           \/ (StartsWith(line1, <<"#">>) /\ ~StartsWith(line1, HttpOnlyMarker))
        THEN <<>>
        ELSE IF Len(parts) < 7 /\ ~tabsOnly THEN SplitWs(line) ELSE parts

RECURSIVE TabularLoop(_, _, _)
TabularLoop(lines, tabsOnly, d) ==
    IF lines = <<>> THEN d
    ELSE LET parts == Row(Head(lines), tabsOnly)
         IN  IF Len(parts) >= 7
             THEN TabularLoop(Tail(lines), tabsOnly,
                      DictSet(d, JStr(parts[6]), JStr(parts[7])))
             ELSE TabularLoop(Tail(lines), tabsOnly, d)

\* 4) Netscape cookie lines, tab- or space-separated
Tabular7(s) ==
    LET d == TabularLoop(SplitLines(s), FALSE, <<>>)
    IN  IF d # <<>> THEN Hit(d) ELSE NoHit

RECURSIVE SemicolonLoop(_, _)
SemicolonLoop(pairs, d) ==
    IF pairs = <<>> THEN d
    ELSE LET nv == SplitOnce(Strip(Head(pairs)), "=")
         IN  IF Len(nv) = 2
             THEN SemicolonLoop(Tail(pairs),
                                DictSet(d, JStr(nv[1]), JStr(nv[2])))
             ELSE SemicolonLoop(Tail(pairs), d)

\* 5) semicolon-separated pairs: returned whatever it holds
Semicolon7(s) == Hit(SemicolonLoop(SplitOn(s, ";"), <<>>))

\* parse_cookies(file_content, file_type) of bot7.py
ParseCookies7(s, hint) ==
    LET r == IF DirectScan(s).hit THEN DirectScan(s)
             ELSE IF JsonArray7(s, hint).hit THEN JsonArray7(s, hint)
             ELSE IF PipeSeparated(s).hit THEN PipeSeparated(s)
             ELSE IF Tabular7(s).hit THEN Tabular7(s)
             ELSE Semicolon7(s)
    IN  [raised |-> r.raised, map |-> r.map]

\* -------------------------------------------------- parse_cookies of bot.py
ParseCookiesBot(s, hint) ==
    LET data == JsonLoads(s)
    IN  IF LooksJson(s, hint) /\ data.ok /\ data.val.t = "arr"
        THEN Comprehension(data.val.items, <<>>)
        ELSE Returned(TabularLoop(SplitLines(s), TRUE, <<>>))

\* ---------------------------------------------- parse_cookies of service.py
RECURSIVE ServiceRows(_, _)
ServiceRows(lines, d) ==
    IF lines = <<>> THEN d
    ELSE LET line == Head(lines)
             parts == SplitOn(line, TAB)
         IN  IF StartsWith(line, <<"#">>) \/ Strip(line) = <<>>
                \/ Len(parts) < 7
             THEN ServiceRows(Tail(lines), d)
             ELSE ServiceRows(Tail(lines),
                              DictSet(d, JStr(parts[6]), JStr(parts[7])))

RECURSIVE ServicePairs(_, _)
ServicePairs(parts, d) ==
    IF parts = <<>> THEN d
    ELSE LET nv == SplitOnce(Head(parts), "=")
         IN  IF Len(nv) = 2
             THEN ServicePairs(Tail(parts),
                      DictSet(d, JStr(Strip(nv[1])), JStr(Strip(nv[2]))))
             ELSE ServicePairs(Tail(parts), d)

ParseCookiesService(s) ==
    LET arr == JsonLoads(s)
        r == IF arr.ok /\ arr.val.t = "arr"
             THEN Comprehension(arr.val.items, <<>>) ELSE Raised
        rows == ServiceRows(SplitLines(s), <<>>)
    IN  IF arr.ok /\ arr.val.t = "arr" /\ ~r.raised THEN r
        ELSE IF rows # <<>> THEN Returned(rows)
        ELSE Returned(ServicePairs(SplitOn(Replace(s, NL, ";"), ";"), <<>>))

\* ------------------------------------------------ the JSON-array form
Escape(tok) ==
    CASE tok = Q -> EscQ
      [] tok = NL -> EscN
      [] tok = TAB -> EscT
      [] OTHER -> tok

\* A sequence of texts joined by sep.
RECURSIVE Join(_, _)
Join(texts, sep) ==
    IF texts = <<>> THEN <<>>
    ELSE IF Len(texts) = 1 THEN texts[1]
    ELSE texts[1] \o sep \o Join(Tail(texts), sep)

\* The JSON text of a value, with the separators ", " and ": ".
RECURSIVE Dumps(_)
Dumps(v) ==
    CASE v.t = "str" -> <<Q>> \o [i \in 1..Len(v.s) |-> Escape(v.s[i])] \o <<Q>>
      [] v.t = "num" -> v.s
      [] v.t = "arr" ->
            <<"[">> \o Join([i \in 1..Len(v.items) |-> Dumps(v.items[i])],
                            <<",", SP>>) \o <<"]">>
      [] v.t = "obj" ->
            <<"{">> \o Join([i \in 1..Len(v.items) |-> Dumps(v.items[i])],
                            <<",", SP>>) \o <<"}">>
      [] v.t = "member" ->
            Dumps(JStr(v.s)) \o <<":", SP>> \o Dumps(v.items[1])
      [] OTHER -> <<"null">>

\* The cookie map as the array of {name, value} objects that strategy 2 reads.
\* The name is written as a member value, so every name a map can hold is
\* written as it is.
JsonArrayForm(d) ==
    Dumps(JArr([i \in 1..Len(d) |->
        JObj(<<JMember(<<"name">>, d[i].name),
               JMember(<<"value">>, d[i].value)>>)]))

\* ------------------------------------------------------- the uploaded texts
\* A text is put together from at most MaxPieces of these pieces.
MaxPieces == 3

NFA == <<"NetflixId", "=", "abc">>
SECD == <<"Secure", "NetflixId", "=", "def">>
KV == <<"k", "=", "v">>
\* A row of a Netscape cookie file: seven tab-separated fields.
ROW == <<".d", TAB, "TRUE", TAB, "/", TAB, "TRUE", TAB, "0", TAB,
         "Sid", TAB, "abc">>
\* "k=v"
QKV == <<Q, "k", "=", "v", Q>>
\* {"name": "k", "value": "v"}
COOKIE == <<"{", Q, "name", Q, ":", SP, Q, "k", Q, ",", SP,
            Q, "value", Q, ":", SP, Q, "v", Q, "}">>
\* {"name": ["k"], "value": "v"}
LISTNAME == <<"{", Q, "name", Q, ":", SP, "[", Q, "k", Q, "]", ",", SP,
              Q, "value", Q, ":", SP, Q, "v", Q, "}">>

Pieces ==
    {NFA, SECD, KV, ROW, QKV, COOKIE, LISTNAME, HttpOnlyMarker,
     <<"#">>, <<";">>, <<"|">>, <<NL>>, <<"[">>, <<"]">>, <<"7">>}

FileTypes == {"txt", "json"}

ParseInit ==
    /\ cookies = {}
    /\ SvcIdle
    /\ TextIdle
    /\ HttpIdle
    /\ FrontIdle

\* One more piece of the upload.
AddPiece(p) ==
    /\ parser = "none"
    /\ nPieces < MaxPieces
    /\ text' = text \o p
    /\ nPieces' = nPieces + 1
    /\ UNCHANGED <<file_type, parser, parsed, reText, reParsed>>
    /\ UNCHANGED <<svcVars, httpVars, frontVars>>

\* cookies = parse_cookies(content, ftype) in bot7.py
Parse7(hint) ==
    /\ parser = "none"
    /\ parser' = "bot7"
    /\ file_type' = hint
    /\ parsed' = ParseCookies7(text, hint)
    /\ UNCHANGED <<text, nPieces, reText, reParsed>>
    /\ UNCHANGED <<svcVars, httpVars, frontVars>>

\* cookies = parse_cookies(content, ftype) in bot.py
ParseBot(hint) ==
    /\ parser = "none"
    /\ parser' = "bot"
    /\ file_type' = hint
    /\ parsed' = ParseCookiesBot(text, hint)
    /\ UNCHANGED <<text, nPieces, reText, reParsed>>
    /\ UNCHANGED <<svcVars, httpVars, frontVars>>

\* cookies = parse_cookies(content) in service.py
ParseService ==
    /\ parser = "none"
    /\ parser' = "service"
    /\ parsed' = ParseCookiesService(text)
    /\ UNCHANGED <<text, nPieces, file_type, reText, reParsed>>
    /\ UNCHANGED <<svcVars, httpVars, frontVars>>

\* The map bot7 returned, written in the JSON-array form and parsed again.
RoundTrip ==
    /\ parser = "bot7"
    /\ ~parsed.raised
    /\ reText = <<>>
    /\ reText' = JsonArrayForm(parsed.map)
    /\ reParsed' = ParseCookies7(reText', "json")
    /\ UNCHANGED <<text, nPieces, file_type, parser, parsed>>
    /\ UNCHANGED <<svcVars, httpVars, frontVars>>

ParseNext ==
    \/ \E p \in Pieces : AddPiece(p)
    \/ \E hint \in FileTypes : Parse7(hint)
    \/ \E hint \in FileTypes : ParseBot(hint)
    \/ ParseService
    \/ RoundTrip

ParseSpec == ParseInit /\ [][ParseNext]_vars

\* ------------------------------------------------ claims on the parsers
\* What the five strategies of bot7 give for a text, each taken alone.
Strategies(s, hint) ==
    <<DirectScan(s), JsonArray7(s, hint), PipeSeparated(s), Tabular7(s),
      Semicolon7(s)>>

\* The map of the first strategy, in the fixed order, that gives a non-empty
\* map; the empty map where none does.
FirstNonEmpty(s, hint) ==
    LET ys == Strategies(s, hint)
        good == {i \in 1..5 : ys[i].hit /\ ~ys[i].raised /\ ys[i].map # <<>>}
    IN  IF good = {} THEN <<>>
        ELSE ys[CHOOSE i \in good : \A j \in good : i <= j].map

\* C11: whenever parse_cookies of bot7 returns, it returns the map of the
\* first strategy (direct scan, JSON array, pipe, tabular, semicolon) that
\* yields a non-empty map: a strategy yielding an empty map falls through.
C11_FirstNonEmptyStrategyWins ==
    (parser = "bot7" /\ ~parsed.raised)
        => parsed.map = FirstNonEmpty(text, file_type)

\* The places of a text where an assignment name=value stands on its own:
\* at the start or after whitespace or a semicolon, with a value after "=".
Assigned(s, name) ==
    {i \in 1..Len(s) :
        /\ StartsWith(SubSeq(s, i, Len(s)), name \o <<"=">>)
        /\ i = 1 \/ s[i - 1] \in Whitespace \cup {";"}
        /\ i + Len(name) + 1 <= Len(s)
        /\ s[i + Len(name) + 1] \notin Whitespace \cup {";"}}

\* The value of the assignment standing at place i.
ValueAt(s, name, i) ==
    Run(SubSeq(s, i + Len(name) + 1, Len(s)), Whitespace \cup {";"})

\* C12: a text holding an assignment NetflixId=v1 and an assignment
\* SecureNetflixId=v2 is parsed by bot7 to exactly {NetflixId: v1,
\* SecureNetflixId: v2}, in whichever order the two stand.
C12_BothIdentifiersExtracted ==
    (/\ parser = "bot7"
     /\ Cardinality(Assigned(text, NetflixIdName)) = 1
     /\ Cardinality(Assigned(text, SecureNetflixIdName)) = 1)
        => LET i == CHOOSE j \in Assigned(text, NetflixIdName) : TRUE
               k == CHOOSE j \in Assigned(text, SecureNetflixIdName) : TRUE
           IN  /\ ~parsed.raised
               /\ DictEq(parsed.map,
                     <<[name |-> JStr(NetflixIdName),
                        value |-> JStr(ValueAt(text, NetflixIdName, i))],
                       [name |-> JStr(SecureNetflixIdName),
                        value |->
                            JStr(ValueAt(text, SecureNetflixIdName, k))]>>)

\* The only identifier assignment of the text is SecureNetflixId=v.
OnlySecureAssigned(s) ==
    /\ Cardinality(Assigned(s, SecureNetflixIdName)) = 1
    /\ Cardinality({i \in 1..Len(s) : s[i] = "NetflixId"}) = 1

\* C13: where the only identifier assignment of the text is SecureNetflixId=v,
\* the direct scan of bot7 returns no map with a NetflixId entry.
C13_ScanNeedsTwoAssignments ==
    (/\ parser = "bot7"
     /\ OnlySecureAssigned(text)
     /\ DirectScan(text).hit)
        => JStr(NetflixIdName) \notin DictKeys(parsed.map)

\* C14: parse_cookies of bot7, bot and service never raises, whatever the
\* text and the format hint.
C14_ParseNeverRaises ==
    parser # "none" => ~parsed.raised

\* The text holds none of the marks of the JSON, pipe and assignment forms.
PlainRows(s) == Range(s) \cap {"=", "|", "[", "{"} = {}

\* The fields of a line that begins with the #HttpOnly_ marker.
MarkedFields(line) ==
    SplitOn(SubSeq(line, Len(HttpOnlyMarker) + 1, Len(line)), TAB)

\* C15: in bot7 and in service.py, a seven-field row behind the #HttpOnly_
\* marker gives the entry field 6 -> field 7, and a text of other # lines
\* only gives no entry.
C15_HttpOnlyRowsAreData ==
    (parser \in {"bot7", "service"} /\ PlainRows(text))
        => /\ ~parsed.raised
           /\ \A line \in Range(SplitLines(text)) :
                 (StartsWith(line, HttpOnlyMarker)
                      /\ Len(MarkedFields(line)) >= 7)
                    => JStr(MarkedFields(line)[6]) \in DictKeys(parsed.map)
           /\ (\A line \in Range(SplitLines(text)) :
                  StartsWith(line, <<"#">>)
                      /\ ~StartsWith(line, HttpOnlyMarker))
                 => parsed.map = <<>>

\* C16: a map returned by bot7, written as a JSON array of {name, value}
\* objects and parsed again by bot7, comes back as the same map.
C16_JsonArrayRoundTrip ==
    (parser = "bot7" /\ reText # <<>>)
        => ~reParsed.raised /\ DictEq(reParsed.map, parsed.map)


\* ======================================================================
\* The plain-HTTP checkers: process_file of bot7.py and of bot2.py.
\* ======================================================================
\* Account fields in one body: at most MaxFields of them.
MaxFields == 2

AccountUrl == <<"https://www.netflix.com", "/account">>
\* resp.url after the redirects
FinalUrls ==
    {AccountUrl,
     AccountUrl \o <<"/membership">>,
     <<"https://www.netflix.com", "/login">>,
     <<"https://help.netflix.com", "/account">>}
Statuses == {200, 403}
\* Failures of a request that httpx raises as subclasses of httpx.HTTPError.
TransportFailures == {"ConnectError", "ReadTimeout"}
\* Outcomes of a send to Telegram.
SendOutcomes == {"ok", "TimedOut", "NetworkError"}

Fields ==
    {"billing", "country", "membership", "hold", "plan", "canChangePlan",
     "nextPay", "signup", "extraSlots", "mail", "phone", "name", "language"}
\* The codes pycountry.countries.get(alpha_2=code) knows.
KnownCountries == {"US"}
NoBody == [fields |-> {}, code |-> "US", hold |-> FALSE]
Bodies ==
    {b \in [fields : {f \in SUBSET Fields : Cardinality(f) <= MaxFields},
            code : {"US", "ZZ"}, hold : BOOLEAN] :
        /\ "country" \notin b.fields => b.code = "US"
        /\ "hold" \notin b.fields => ~b.hold}
\* A page off the account path carries no account field.
BodiesAt(url) == IF StartsWith(url, AccountUrl) THEN Bodies ELSE {NoBody}

CookieNameSets ==
    {{}, {"NetflixId"}, {"SecureNetflixId"}, {"Sid"},
     {"NetflixId", "SecureNetflixId"}, {"NetflixId", "SecureNetflixId", "Sid"}}

\* session_cookies: the names kept for the requests
SessionCookies(c) == c \cap {"NetflixId", "SecureNetflixId"}

\* Mutation of IsAccountUrl: the final URL has to be the account path itself
IsAccountUrlExact(url) == url = AccountUrl

\* str(resp.url).startswith("https://www.netflix.com/account")
IsAccountUrl(url) == StartsWith(url, AccountUrl)

\* Mutation of Caught: only timeouts are caught
CaughtTimeoutsOnly(v, kind) == v = "bot2" \/ kind = "ReadTimeout"

\* except httpx.HTTPError (bot7), except Exception (bot2)
Caught(v, kind) == v = "bot2" \/ kind \in TransportFailures

\* except (TimedOut, httpcore.PoolTimeout) around the sends of bot7
SendCaught(v, how) == v = "bot7" /\ how = "TimedOut"

\* The exception the field extraction ends with, or "none".
ExtractError(v, b) ==
    IF "country" \notin b.fields THEN "none"
    ELSE IF v = "bot7" THEN "IndexError"
    ELSE IF b.code \notin KnownCountries THEN "AttributeError"
    ELSE "none"
ExtractionErrors == {"IndexError", "AttributeError"}

Line(present, l) == IF present THEN l ELSE <<>>

\* The line of the report a field gives.
LineOf(f, b) ==
    CASE f = "billing" -> <<"Billed", "Using">>
      [] f = "country" -> <<"Country: (" \o b.code \o ")">>
      [] f = "membership" -> <<"Membership status">>
      [] f = "hold" -> IF b.hold THEN <<"Plan status: On Hold">>
                       ELSE <<"Plan status: Active">>
      [] f = "plan" -> <<"Plan details">>
      [] f = "canChangePlan" -> <<"Can change plan">>
      [] f = "nextPay" -> <<"Next payment">>
      [] f = "signup" -> <<"Signup D&T">>
      [] f = "extraSlots" -> <<"Extra Slots">>
      [] f = "mail" -> <<"Mail">>
      [] f = "phone" -> <<"Phone">>
      [] f = "name" -> <<"Name">>
      [] f = "language" -> <<"Display Language">>

FieldOrder ==
    <<"billing", "country", "membership", "hold", "plan", "canChangePlan",
      "nextPay", "signup", "extraSlots", "mail", "phone", "name", "language">>

\* section: bot2 writes the plan-change line also where the field is missing
RECURSIVE SectionFrom(_, _, _)
SectionFrom(i, v, b) ==
    IF i > Len(FieldOrder) THEN <<>>
    ELSE Line(FieldOrder[i] \in b.fields
                  \/ (v = "bot2" /\ FieldOrder[i] = "canChangePlan"),
              LineOf(FieldOrder[i], b))
         \o SectionFrom(i + 1, v, b)

Section(v, b) == <<"Account Information:">> \o SectionFrom(1, v, b)

HttpInit ==
    /\ cookies = {}
    /\ SvcIdle
    /\ TextIdle
    /\ FrontIdle
    /\ hpc = "start"
    /\ version \in {"bot7", "bot2"}
    /\ hcookies \in CookieNameSets
    /\ sent = <<>>
    /\ valid = FALSE
    /\ html = NoBody
    /\ finalUrl = <<>>
    /\ status = 0
    /\ transport = "none"
    /\ section = <<>>
    /\ extracted = FALSE
    /\ houtcome = "none"
    /\ delivered = FALSE
    /\ escaped = "none"

reqVars == <<sent, valid, html, finalUrl, status, transport>>

\* if not cookies: "Cookie format is incorrect"
FormatIncorrect ==
    /\ hpc = "start"
    /\ hcookies = {}
    /\ houtcome' = "ParseFailure"
    /\ hpc' = "send"
    /\ UNCHANGED <<version, hcookies, reqVars, section, extracted, delivered,
                   escaped>>
    /\ UNCHANGED <<svcVars, textVars, frontVars>>

\* bot7, if not session_cookies: "Missing NetflixId/SecureNetflixId"
MissingIdentifiers ==
    /\ hpc = "start"
    /\ version = "bot7"
    /\ hcookies # {}
    /\ SessionCookies(hcookies) = {}
    /\ houtcome' = "MissingIdentifiers"
    /\ hpc' = "send"
    /\ UNCHANGED <<version, hcookies, reqVars, section, extracted, delivered,
                   escaped>>
    /\ UNCHANGED <<svcVars, textVars, frontVars>>

\* bot7: client.get("https://www.netflix.com") returns
RootOk ==
    /\ hpc = "start"
    /\ version = "bot7"
    /\ SessionCookies(hcookies) # {}
    /\ sent' = Append(sent, "root")
    /\ hpc' = "root_done"
    /\ UNCHANGED <<version, hcookies, valid, html, finalUrl, status,
                   transport, section, extracted, houtcome, delivered,
                   escaped>>
    /\ UNCHANGED <<svcVars, textVars, frontVars>>

\* A request raises: caught, valid = False and html = "", or left to escape.
Failed(request, kind) ==
    /\ sent' = Append(sent, request)
    /\ transport' = kind
    /\ IF Caught(version, kind)
       THEN /\ valid' = FALSE
            /\ html' = NoBody
            /\ hpc' = "validated"
            /\ UNCHANGED escaped
       ELSE /\ escaped' = kind
            /\ hpc' = "done"
            /\ UNCHANGED <<valid, html>>
    /\ UNCHANGED <<version, hcookies, finalUrl, status, section, extracted,
                   houtcome, delivered>>
    /\ UNCHANGED <<svcVars, textVars, frontVars>>

\* bot7: client.get("https://www.netflix.com") raises
RootFail(kind) ==
    /\ hpc = "start"
    /\ version = "bot7"
    /\ SessionCookies(hcookies) # {}
    /\ Failed("root", kind)

\* The account request issued whether or not the root request was sent.
AccountDueWithoutRoot ==
    \/ version = "bot7" /\ hpc \in {"start", "root_done"} /\ SessionCookies(hcookies) # {}
    \/ version = "bot2" /\ hpc = "start" /\ hcookies # {}

\* The account request can be issued.
AccountDue ==
    \/ version = "bot7" /\ hpc = "root_done"
    \/ version = "bot2" /\ hpc = "start" /\ hcookies # {}

\* The account request returns: html = resp.text, valid from resp.url
AccountOk ==
    /\ AccountDue
    /\ \E url \in FinalUrls, st \in Statuses :
          \E b \in BodiesAt(url) :
             /\ finalUrl' = url
             /\ status' = st
             /\ html' = b
             /\ valid' = IsAccountUrl(url)
    /\ sent' = Append(sent, "account")
    /\ hpc' = "validated"
    /\ UNCHANGED <<version, hcookies, transport, section, extracted,
                   houtcome, delivered, escaped>>
    /\ UNCHANGED <<svcVars, textVars, frontVars>>

\* The account request raises.
AccountFail(kind) ==
    /\ AccountDue
    /\ Failed("account", kind)

\* if valid: the fields are read from html and the report is put together
ExtractFields ==
    /\ hpc = "validated"
    /\ valid
    /\ IF ExtractError(version, html) = "none"
       THEN /\ extracted' = TRUE
            /\ section' = Section(version, html)
            /\ houtcome' = "Valid"
            /\ hpc' = "send"
            /\ UNCHANGED escaped
       ELSE /\ escaped' = ExtractError(version, html)
            /\ hpc' = "done"
            /\ UNCHANGED <<extracted, section, houtcome>>
    /\ UNCHANGED <<version, hcookies, reqVars, delivered>>
    /\ UNCHANGED <<svcVars, textVars, frontVars>>

\* else: "This cookie is invalid or expired"
SendInvalid ==
    /\ hpc = "validated"
    /\ ~valid
    /\ houtcome' = "Invalid"
    /\ hpc' = "send"
    /\ UNCHANGED <<version, hcookies, reqVars, section, extracted, delivered,
                   escaped>>
    /\ UNCHANGED <<svcVars, textVars, frontVars>>

\* The send to the requester: bot7 catches a timeout, bot2 catches nothing.
Deliver(how) ==
    /\ hpc = "send"
    /\ IF how = "ok" \/ SendCaught(version, how)
       THEN /\ delivered' = (how = "ok")
            /\ hpc' = IF houtcome = "Valid" THEN "owner" ELSE "done"
            /\ UNCHANGED escaped
       ELSE /\ escaped' = how
            /\ hpc' = "done"
            /\ UNCHANGED delivered
    /\ UNCHANGED <<version, hcookies, reqVars, section, extracted, houtcome>>
    /\ UNCHANGED <<svcVars, textVars, frontVars>>

\* The copy of a working cookie for the owner.
OwnerCopy(how) ==
    /\ hpc = "owner"
    /\ hpc' = "done"
    /\ escaped' = IF how = "ok" \/ SendCaught(version, how)
                  THEN escaped ELSE how
    /\ UNCHANGED <<version, hcookies, reqVars, section, extracted, houtcome,
                   delivered>>
    /\ UNCHANGED <<svcVars, textVars, frontVars>>

HttpNext ==
    \/ FormatIncorrect
    \/ MissingIdentifiers
    \/ RootOk
    \/ \E kind \in TransportFailures : RootFail(kind)
    \/ AccountOk
    \/ \E kind \in TransportFailures : AccountFail(kind)
    \/ ExtractFields
    \/ SendInvalid
    \/ \E how \in SendOutcomes : Deliver(how)
    \/ \E how \in SendOutcomes : OwnerCopy(how)

HttpSpec == HttpInit /\ [][HttpNext]_vars

\* ------------------------------------------- claims on the plain-HTTP path
\* The account request was answered: resp.url, resp.status_code and resp.text
\* are the answer's.
AccountAnswered ==
    sent # <<>> /\ Last(sent) = "account" /\ transport = "none"

\* C17 as stated: valid is true for the account path as final URL and false for
\* every other final URL, whatever the status code.
C17_ValidIffAccountPath ==
    AccountAnswered => (valid <=> finalUrl = AccountUrl)

\* C17: valid is true exactly where the final URL after the redirects begins
\* with the account path (the path itself or a longer URL under it), and false
\* for every other final URL, whatever the status code.
C17_ValidIffAccountPrefix ==
    AccountAnswered => (valid <=> StartsWith(finalUrl, AccountUrl))

\* A longer URL that begins with the account path was taken as valid, with a
\* status code other than 200.
C17_Witness ==
    /\ AccountAnswered
    /\ valid
    /\ finalUrl = AccountUrl \o <<"/membership">>
    /\ status = 403

C19_MissingEitherIdentifier ==
    (/\ version = "bot7"
     /\ hcookies # {}
     /\ ~({"NetflixId", "SecureNetflixId"} \subseteq hcookies)
     /\ hpc # "start")
        => sent = <<>> /\ houtcome = "MissingIdentifiers"

\* C20: once extraction has run on a validated body it has completed without
\* an exception, and every field present in the body has its line in the
\* report.
C20_ExtractionNeverFails ==
    (valid /\ hpc # "validated")
        => /\ escaped \notin ExtractionErrors
           /\ extracted
           /\ \A f \in html.fields :
                 Range(LineOf(f, html)) \subseteq Range(section)

\* The places of the lines of field f in the report.
Places(f) ==
    {i \in 1..Len(section) : section[i] \in Range(LineOf(f, html))}

\* C21: the report of a validated body starts with its heading and lists the
\* fields in the fixed order billing, country, membership status, plan status,
\* plan name, plan-change eligibility, next payment, signup date, extra-slot
\* flag, email, phone, name, display language; a field has its line if and only
\* if it was found in the body; plan status reads On Hold exactly when the hold
\* flag is true.
C21_ReportOrderAndPresence ==
    extracted
        => /\ Head(section) = "Account Information:"
           /\ \A f \in Fields : f \in html.fields <=> Places(f) # {}
           /\ \A i \in 1..Len(FieldOrder), j \in 1..Len(FieldOrder) :
                 i < j => \A x \in Places(FieldOrder[i]),
                             y \in Places(FieldOrder[j]) : x < y
           /\ "hold" \in html.fields
                 => (html.hold <=> "Plan status: On Hold" \in Range(section))


\* ======================================================================
\* The sends of bot7 toward Telegram.  Units are tasks and run at the same
\* time; the application runs one handler at a time, next to the units.
\* ======================================================================
\* Units that exist at the same time.
MaxUnits == 21
\* SEND_SEMAPHORE = asyncio.Semaphore(20)
SendSlots == 20

\* Slots of SEND_SEMAPHORE that are held.
SlotsHeld == unitsSending + (IF handlerAt = "sending" THEN 1 ELSE 0)
\* Sends toward Telegram that are in flight.
InFlight == SlotsHeld + (IF handlerAt = "reply" THEN 1 ELSE 0)

SendInit ==
    /\ cookies = {}
    /\ SvcIdle
    /\ TextIdle
    /\ HttpIdle
    /\ FrontIdle

exceptSend == <<svcVars, textVars, httpVars, handlerVars, unitVars>>

\* process_file reaches one of its "async with SEND_SEMAPHORE".
UnitReachesSend ==
    /\ unitsWaiting + unitsSending < MaxUnits
    /\ unitsWaiting' = unitsWaiting + 1
    /\ UNCHANGED <<handlerAt, unitsSending, exceptSend>>

\* The unit gets a slot and issues its send.
UnitAcquires ==
    /\ unitsWaiting > 0
    /\ SlotsHeld < SendSlots
    /\ unitsWaiting' = unitsWaiting - 1
    /\ unitsSending' = unitsSending + 1
    /\ UNCHANGED <<handlerAt, exceptSend>>

\* The send returns or times out; the slot is released.
UnitSent ==
    /\ unitsSending > 0
    /\ unitsSending' = unitsSending - 1
    /\ UNCHANGED <<handlerAt, unitsWaiting, exceptSend>>

\* handle_document or handle_text answers a requester who is not a member:
\* update.message.reply_text, outside SEND_SEMAPHORE.
HandlerReplies ==
    /\ handlerAt = "idle"
    /\ handlerAt' = "reply"
    /\ UNCHANGED <<unitsWaiting, unitsSending, exceptSend>>

\* The handler reaches the "async with SEND_SEMAPHORE" of one of its warnings.
HandlerReachesSend ==
    /\ handlerAt = "idle"
    /\ handlerAt' = "waiting"
    /\ UNCHANGED <<unitsWaiting, unitsSending, exceptSend>>

HandlerAcquires ==
    /\ handlerAt = "waiting"
    /\ SlotsHeld < SendSlots
    /\ handlerAt' = "sending"
    /\ UNCHANGED <<unitsWaiting, unitsSending, exceptSend>>

\* The handler's send is over and the handler returns.
HandlerReturns ==
    /\ handlerAt \in {"reply", "sending"}
    /\ handlerAt' = "idle"
    /\ UNCHANGED <<unitsWaiting, unitsSending, exceptSend>>

SendNext ==
    \/ UnitReachesSend
    \/ UnitAcquires
    \/ UnitSent
    \/ HandlerReplies
    \/ HandlerReachesSend
    \/ HandlerAcquires
    \/ HandlerReturns

SendSpec == SendInit /\ [][SendNext]_vars

\* C22: at most 20 sends toward Telegram are in flight at any time: every send
\* in flight, a gating reply included, holds a slot of SEND_SEMAPHORE.
C22_AtMostTwentySendsInFlight ==
    InFlight <= SendSlots /\ InFlight = SlotsHeld


\* ======================================================================
\* handle_document of bot7.py, bot2.py and service.py: the membership gate,
\* the download, and the units scheduled for the upload.
\* ======================================================================
Versions == {"bot7", "bot2", "service"}
\* chat_member.status, or "error" when get_chat_member raises
MemberStatuses == {"member", "administrator", "creator", "left", "kicked", "error"}
Joined == {"member", "administrator", "creator"}
\* what get_channel_invite_link returns
InviteLinks == {"link", "None"}
\* The document: a .txt/.json file, a .zip holding that file as its one member,
\* a .zip holding it under __MACOSX/, or a file of another type.
Containers == {"direct", "zip", "zip_macosx", "other"}
\* TELEGRAM_MAX_LINES
TelegramMaxLines == 4096

ROW2 == <<".d", TAB, "TRUE", TAB, "/", TAB, "TRUE", TAB, "0", TAB,
          "Nid", TAB, "def">>

\* The contents of the uploaded file.
UploadTexts ==
    {<<>>,
     <<NL>>,
     NFA \o <<";">> \o SECD,
     NFA \o <<NL>> \o SECD,
     ROW,
     ROW \o <<NL>> \o ROW2,
     <<"[">> \o COOKIE \o <<"]">>,
     <<"[", NL>> \o COOKIE \o <<NL, "]">>,
     <<SP>> \o NFA \o <<";">> \o SECD \o <<SP, NL>>}

File(content, ftype) == [content |-> content, ftype |-> ftype]

\* for i, line in enumerate(lines): entry = line.strip(); if not entry: continue;
\* files.append((entry_name, entry, ext.lstrip('.')))
RECURSIVE Entries(_, _)
Entries(lines, ext) ==
    IF lines = <<>> THEN <<>>
    ELSE LET entry == Strip(Head(lines))
         IN  (IF entry = <<>> THEN <<>> ELSE <<File(entry, ext)>>)
                 \o Entries(Tail(lines), ext)

\* The whole file is one unit of work.
WholeFile(up, raw) == <<File(raw, up.ext)>>

\* bot7 splits a direct upload into one unit per line.
PerLine(up, raw) == Entries(SplitLines(raw), up.ext)

\* files, as handle_document of version v collects it
Files(v, up, raw) ==
    CASE up.container = "direct" ->
             IF v = "bot7" THEN PerLine(up, raw) ELSE WholeFile(up, raw)
      [] up.container = "zip" -> WholeFile(up, raw)
      [] OTHER -> <<>>

\* The gate of version v lets the requester through.
GateOpen(v, st, link) ==
    CASE v = "bot2" -> st \in Joined \/ (st # "error" /\ link = "None")
      [] OTHER -> st \in Joined

HandlerInit ==
    /\ cookies = {}
    /\ SvcIdle
    /\ TextIdle
    /\ HttpIdle
    /\ gver \in Versions
    /\ HandlerIdle
    /\ SendIdle
    /\ UnitsIdle

exceptHandler == <<svcVars, nPieces, file_type, parser, parsed, reText, reParsed,
                   httpVars, gver, sendVars, unitVars>>

\* A document arrives.
Arrives ==
    /\ gpc = "idle"
    /\ \E c \in Containers, x \in FileTypes, raw \in UploadTexts :
          /\ upload' = [container |-> c, ext |-> x]
          /\ text' = raw
    /\ gpc' = "gate"
    /\ UNCHANGED <<membership, invite, downloaded, scheduled, reply, exceptHandler>>

\* get_chat_member and the test of its status.
CheckMembership ==
    /\ gpc = "gate"
    /\ \E st \in MemberStatuses, link \in (IF gver = "bot2" THEN InviteLinks ELSE {"link"}) :
          /\ membership' = st
          /\ invite' = link
          /\ IF GateOpen(gver, st, link)
             THEN gpc' = "download" /\ reply' = reply
             ELSE gpc' = "done" /\ reply' = "join"
    /\ UNCHANGED <<text, upload, downloaded, scheduled, exceptHandler>>

\* file = await doc.get_file(); data = await file.download_as_bytearray()
Download ==
    /\ gpc = "download"
    /\ downloaded' = TRUE
    /\ gpc' = "extract"
    /\ UNCHANGED <<text, membership, invite, upload, scheduled, reply, exceptHandler>>

\* The files are collected and one task is created for each.
Schedule ==
    /\ gpc = "extract"
    /\ gpc' = "done"
    /\ LET files == Files(gver, upload, text)
       IN  IF gver = "bot7" /\ upload.container = "direct"
                /\ Len(SplitLines(text)) > TelegramMaxLines
           THEN reply' = "too_many" /\ scheduled' = <<>>
           ELSE IF upload.container = "other"
           THEN reply' = "unsupported" /\ scheduled' = <<>>
           ELSE IF files = <<>>
           THEN reply' = "no_files" /\ scheduled' = <<>>
           ELSE reply' = reply /\ scheduled' = files
    /\ UNCHANGED <<text, membership, invite, upload, downloaded, exceptHandler>>

HandlerNext ==
    \/ Arrives
    \/ CheckMembership
    \/ Download
    \/ Schedule

HandlerSpec == HandlerInit /\ [][HandlerNext]_vars

\* C27: in every version of the document handler nothing is downloaded and no
\* unit is scheduled for a requester who is not a member of the channel or
\* whose membership check failed, whether or not an invite link was obtained.
C27_GateBeforeDownload ==
    membership \notin Joined => ~downloaded /\ scheduled = <<>>

\* The cookie maps the units of files parse, in order.
CookieMaps(files) ==
    [i \in 1..Len(files) |-> ParseCookies7(files[i].content, files[i].ftype)]

SameMaps(a, b) ==
    /\ Len(a) = Len(b)
    /\ \A i \in 1..Len(a) : a[i].raised = b[i].raised /\ DictEq(a[i].map, b[i].map)

\* The same file sent the other way: inside a .zip instead of directly, or
\* directly instead of inside a .zip.
OtherWay(up) ==
    [up EXCEPT !.container = IF up.container = "direct" THEN "zip" ELSE "direct"]

\* C28: in bot7 the units scheduled for a file, and the cookie maps they
\* parse, are the same whether the file is uploaded directly or inside a .zip.
C28_DirectAndZipAgree ==
    (gver = "bot7" /\ gpc = "done" /\ downloaded /\ upload.container \in {"direct", "zip"})
        => /\ Len(scheduled) = Len(Files("bot7", OtherWay(upload), text))
           /\ SameMaps(CookieMaps(scheduled),
                       CookieMaps(Files("bot7", OtherWay(upload), text)))


\* ------------------------------------------------ the requests of one unit
\* C26: a unit of bot7 sends at most one request to the site root and at most
\* one to the account path, the account request only when the root request
\* has returned without a failure; after a failed root request nothing more
\* is sent.
C26_RootThenAccountOnce ==
    /\ [](version = "bot7" => sent \in {<<>>, <<"root">>, <<"root", "account">>})
    /\ [][(version = "bot7" /\ sent' # sent)
             => \/ sent = <<>> /\ sent' = <<"root">>
                \/ /\ sent = <<"root">>
                   /\ transport = "none"
                   /\ sent' = <<"root", "account">>]_vars

\* Both requests were sent, the second one answered.
C26_Witness ==
    /\ version = "bot7"
    /\ sent = <<"root", "account">>
    /\ transport = "none"
    /\ hpc = "validated"


\* C25: a unit that has started ends with exactly one outcome for its
\* requester: when the unit is over, one of the outcomes was determined and
\* handed to the send toward the requester.
C25_EveryUnitReportsOneOutcome ==
    hpc = "done"
        => houtcome \in {"ParseFailure", "MissingIdentifiers", "Invalid", "Valid"}

\* ------------------------------------------- the result of the browser flow
\* All timestamps the profile pages of the reported profiles collected.
Collected == UNION {Range(dates[g]) : g \in guids}

\* C24: in a valid result the latest activity is the day of the greatest
\* timestamp collected over all profiles and is absent exactly when no
\* profile collected one; the names are, profile by profile, the display name
\* extracted for it, or its GUID when none was extracted.
C24_LatestIsMaxNamesFallBack ==
    outcome = "Valid"
        => /\ (report.latest = NoDate) <=> (Collected = {})
           /\ Collected # {}
                 => \E d \in Collected :
                       /\ \A x \in Collected : x <= d
                       /\ report.latest = FormatDate(d)
           /\ Len(report.names) = Cardinality(guids)
           /\ \A i \in 1..Len(report.names) :
                 LET g == SetToSeq(guids)[i]
                 IN  report.names[i] = IF prof[g] = NoName THEN GuidStr(g) ELSE prof[g]

\* A valid result over two profiles, one named and one not, where the
\* greatest timestamp is not the one collected last.
C24_Witness ==
    /\ outcome = "Valid"
    /\ Cardinality(guids) = 2
    /\ \E g \in guids : prof[g] = NoName
    /\ \E g \in guids : prof[g] # NoName
    /\ \E g \in guids : dates[g] = <<Day2, Day1>>
    /\ report.latest = FormatDate(Day2)

\* ======================================================================
\* Units of the browser flow running at the same time.  Each call of
\* process_file has its own cookies, browser context, service_code and guids,
\* each call of fetch_profile its own prof and dates.
\* ======================================================================
NUnits == 2
Units == 1..NUnits

\* What a file holds: nothing parse_cookies can read, the cookies of account
\* A or B, or cookies that are no longer accepted.
Credentials == {"unreadable", "acctA", "acctB", "expired"}
NoJar == "empty"

\* What the site answers to a browser context holding the cookies of jar: the
\* account page (authCode and guid matches) ...
AccountPage(jar) ==
    CASE jar = "acctA" -> [code |-> CodeA, guids |-> {1, 2}]
      [] jar = "acctB" -> [code |-> CodeB, guids |-> {3}]
      [] OTHER -> [code |-> NoCode, guids |-> {}]

\* ... and the viewing activity of profile g.
ActivityPage(jar, g) ==
    CASE jar = "acctA" /\ g = 1 -> [names |-> <<"Ann">>, dates |-> <<Day1>>]
      [] jar = "acctA" /\ g = 2 -> [names |-> <<>>, dates |-> <<Day2, Day1>>]
      [] jar = "acctB" /\ g = 3 -> [names |-> <<"Bob">>, dates |-> <<Day1>>]
      [] OTHER -> [names |-> <<>>, dates |-> <<>>]

\* Mutation of Binding: service_code, guids, prof and dates are module-level
\* names, shared by all calls.
BindingShared(u) == 1

\* nonlocal service_code, guids / nonlocal prof, dates: the observer of a page
\* of unit u writes the variables of the call that created it.
Binding(u) == u

\* The outcome of process_file for a file holding cred when no other unit runs.
Alone(cred) ==
    LET acct == AccountPage(cred)
        names == [g \in GUIDS |-> CaptureName(NoName, ActivityPage(cred, g).names)]
        found == [g \in GUIDS |-> ActivityPage(cred, g).dates]
    IN  IF cred = "unreadable" THEN [kind |-> "ParseFailure", report |-> NoReport]
        ELSE IF IsInvalid(acct.code) THEN [kind |-> "Invalid", report |-> NoReport]
        ELSE [kind |-> "Valid",
              report |-> Caption(acct.code, GatherResults(acct.guids, names, found))]

UnitsInit ==
    /\ cookies = {}
    /\ SvcIdle
    /\ TextIdle
    /\ HttpIdle
    /\ gver = "service"
    /\ HandlerIdle
    /\ SendIdle
    /\ upc = [u \in Units |-> "idle"]
    /\ ucookies = [u \in Units |-> "unreadable"]
    /\ ujar = [u \in Units |-> NoJar]
    /\ ucode = [u \in Units |-> NoCode]
    /\ uguids = [u \in Units |-> {}]
    /\ uprof = [u \in Units |-> [g \in GUIDS |-> NoName]]
    /\ udates = [u \in Units |-> [g \in GUIDS |-> <<>>]]
    /\ ufetched = [u \in Units |-> {}]
    /\ uout = [u \in Units |-> [kind |-> "none", report |-> NoReport]]

exceptUnits == <<svcVars, textVars, httpVars, handlerVars, sendVars>>

\* cookies = parse_cookies(content); if not cookies: "could not parse"
UnitStart(u) ==
    /\ upc[u] = "idle"
    /\ \E cred \in Credentials :
          /\ ucookies' = [ucookies EXCEPT ![u] = cred]
          /\ IF cred = "unreadable"
             THEN /\ uout' = [uout EXCEPT ![u] = [kind |-> "ParseFailure", report |-> NoReport]]
                  /\ upc' = [upc EXCEPT ![u] = "done"]
             ELSE /\ uout' = uout
                  /\ upc' = [upc EXCEPT ![u] = "context"]
    /\ UNCHANGED <<ujar, ucode, uguids, uprof, udates, ufetched, exceptUnits>>

\* ctx = await browser.new_context(); await ctx.add_cookies(ck)
UnitAddCookies(u) ==
    /\ upc[u] = "context"
    /\ ujar' = [ujar EXCEPT ![u] = ucookies[u]]
    /\ upc' = [upc EXCEPT ![u] = "account"]
    /\ UNCHANGED <<ucookies, ucode, uguids, uprof, udates, ufetched, uout, exceptUnits>>

\* page.goto(account): on_resp sees the answer to the context's cookies
UnitOnResp(u) ==
    /\ upc[u] = "account"
    /\ LET acct == AccountPage(ujar[u])
           w == Binding(u)
       IN  /\ ucode' = [ucode EXCEPT ![w] = IF acct.code = NoCode THEN @ ELSE acct.code]
           /\ uguids' = [uguids EXCEPT ![w] = @ \cup acct.guids]
    /\ upc' = [upc EXCEPT ![u] = "profiles"]
    /\ UNCHANGED <<ucookies, ujar, uprof, udates, ufetched, uout, exceptUnits>>

\* fetch_profile(g) of unit u: ph sees the activity page of g
UnitProfileResp(u, g) ==
    /\ upc[u] = "profiles"
    /\ g \in uguids[u] \ ufetched[u]
    /\ LET act == ActivityPage(ujar[u], g)
           w == Binding(u)
       IN  /\ uprof' = [uprof EXCEPT ![w][g] = CaptureName(@, act.names)]
           /\ udates' = [udates EXCEPT ![w][g] = AppendDates(@, act.dates)]
    /\ ufetched' = [ufetched EXCEPT ![u] = @ \cup {g}]
    /\ UNCHANGED <<upc, ucookies, ujar, ucode, uguids, uout, exceptUnits>>

\* gather has returned: "invalid or expired", or the valid result
UnitReport(u) ==
    /\ upc[u] = "profiles"
    /\ ufetched[u] = uguids[u]
    /\ uout' = [uout EXCEPT ![u] =
                  IF IsInvalid(ucode[u]) THEN [kind |-> "Invalid", report |-> NoReport]
                  ELSE [kind |-> "Valid",
                        report |-> Caption(ucode[u],
                                           GatherResults(uguids[u], uprof[u], udates[u]))]]
    /\ upc' = [upc EXCEPT ![u] = "done"]
    /\ UNCHANGED <<ucookies, ujar, ucode, uguids, uprof, udates, ufetched, exceptUnits>>

UnitsNext ==
    \E u \in Units :
       \/ UnitStart(u)
       \/ UnitAddCookies(u)
       \/ UnitOnResp(u)
       \/ \E g \in GUIDS : UnitProfileResp(u, g)
       \/ UnitReport(u)

UnitsSpec == UnitsInit /\ [][UnitsNext]_vars

====
